---- MODULE Spec2Model ----
(***************************************************************************)
(* Model of src/src/main.rs: the parallel chunked scan-and-merge engine.   *)
(*                                                                         *)
(* A file is a sequence of bytes (0..255), indexed from 0 as in the source *)
(* (At(s, i) is s[i] of the source).  Temperatures are f64 values, held    *)
(* bit for bit, and their arithmetic rounds as the hardware's does; count  *)
(* is an f64 as well (main.rs:15) and is added to as one.                  *)
(* CHUNK_SIZE and CHUNK_EXCESS are the source's constants scaled down      *)
(* (16 MiB -> 13, 64 -> 6), keeping the source's relations: longest record *)
(* < CHUNK_EXCESS and 2 * CHUNK_EXCESS < CHUNK_SIZE.                       *)
(***************************************************************************)
EXTENDS Integers, Sequences, FiniteSets, TLC

\* main.rs:9 (scaled down from 16 * 1024 * 1024)
CHUNK_SIZE == 13
\* main.rs:10 (scaled down from 64)
CHUNK_EXCESS == 6

\* b'\n', the record terminator (main.rs:80, 88, 105)
NL == 10
\* b';', the field separator (main.rs:111)
SEMI == 59

\* Largest file size (bytes) of the input files of short and long records.
MaxFileSize == 32
\* Largest fractional digit of the input files with fractional values.
MaxTenth == 3
\* Largest file size (bytes) of the ill-formed input files.
MaxIllFormedSize == 23
\* Largest file size (bytes) of the input files with a value nan.
MaxNanSize == 12
\* Largest value of thread::available_parallelism().
MaxThreads == 2

Min(a, b) == IF a <= b THEN a ELSE b
Max(a, b) == IF a >= b THEN a ELSE b

\* s[i] with the source's 0-based index
At(s, i) == s[i + 1]
\* s[a..b] (b exclusive) with the source's 0-based indices
Slice(s, a, b) == SubSeq(s, a + 1, b)

(***************************************************************************)
(* Input files: newline-terminated records key;value, every record shorter *)
(* than CHUNK_EXCESS.  A record is short ("K;1\n", 4 bytes) or long        *)
(* ("K;-2\n", 5 bytes); the keys alternate A, B, A, ... along the file.    *)
(***************************************************************************)
ShortRecord(key) == <<key, SEMI, 49, NL>>
LongRecord(key) == <<key, SEMI, 45, 50, NL>>
KeyOfIndex(i) == IF i % 2 = 1 THEN 65 ELSE 66

RECURSIVE FilesFrom(_, _)
FilesFrom(i, room) ==
    {<<>>}
    \cup (IF room >= 4
          THEN {ShortRecord(KeyOfIndex(i)) \o f : f \in FilesFrom(i + 1, room - 4)}
          ELSE {})
    \cup (IF room >= 5
          THEN {LongRecord(KeyOfIndex(i)) \o f : f \in FilesFrom(i + 1, room - 5)}
          ELSE {})

\* a record whose value has a fractional part: "K;.d\n"
FractionRecord(key, tenth) == <<key, SEMI, 46, 48 + tenth, NL>>

\* files of three non-empty chunks in which the key A has fractional values
FractionalFiles ==
    {FractionRecord(65, 1) \o FractionRecord(65, 1)
        \o ShortRecord(65) \o ShortRecord(66)
        \o FractionRecord(65, c) \o FractionRecord(65, d)
        \o ShortRecord(65) \o ShortRecord(66) : c, d \in 1..MaxTenth}

WellFormedFiles == FilesFrom(1, MaxFileSize) \cup FractionalFiles

\* a record whose value is a zero with a sign: "K;+0\n" or "K;-0\n"
SignedZeroRecord(key, sign) == <<key, SEMI, sign, 48, NL>>

\* files of three non-empty chunks in which every value of the key A is a
\* zero, of both signs within the first chunk and across the chunks
SignedZeroFiles ==
    {SignedZeroRecord(65, 43) \o SignedZeroRecord(65, 45)
        \o ShortRecord(66) \o ShortRecord(66)
        \o SignedZeroRecord(65, c) \o SignedZeroRecord(65, d)
        \o ShortRecord(66) \o ShortRecord(66) : c, d \in {43, 45}}

\* a record whose value is the literal nan, which parse::<f64>() accepts
NanRecord(key) == <<key, SEMI, 110, 97, 110, NL>>

\* files of one chunk with a record of value nan among well-formed records
NanFiles ==
    {f \in {before \o NanRecord(65) \o after :
               before \in FilesFrom(1, MaxNanSize - 6),
               after \in FilesFrom(1, MaxNanSize - 6)} :
        Len(f) <= MaxNanSize}

(***************************************************************************)
(* Ill-formed input files: well-formed records around one record that has  *)
(* no separator ("A1\n"), or whose value is no numeric literal ("A;x\n"),   *)
(* or that is longer than CHUNK_EXCESS ("AAAAAA;1\n"), or whose key is not  *)
(* UTF-8 (the byte 0xFF).                                                  *)
(***************************************************************************)
NoSeparatorRecord(key) == <<key, 49, NL>>
BadLiteralRecord(key) == <<key, SEMI, 120, NL>>
OverlongRecord(key) == <<key, key, key, key, key, key, SEMI, 49, NL>>
BadKeyRecord == <<255, SEMI, 49, NL>>

IllFormedFiles ==
    {f \in {before \o odd \o after :
               before \in FilesFrom(2, MaxIllFormedSize - 3),
               odd \in {NoSeparatorRecord(65), BadLiteralRecord(65),
                        OverlongRecord(65), BadKeyRecord},
               after \in FilesFrom(2, MaxIllFormedSize - 3)} :
        Len(f) <= MaxIllFormedSize}

(***************************************************************************)
(* f64 (main.rs:14-17): an IEEE 754 binary64 value.  cls is "nan", "inf",  *)
(* "zero" or "num"; a "num" is (hi * 2^27 + lo) * 2^(exp - 52) with        *)
(* neg its sign, hi the upper 26 and lo the lower 27 bits of the 53-bit    *)
(* significand (subnormal: exp = -1022 and hi < 2^25).  The arithmetic     *)
(* rounds to nearest, ties to even, as the hardware does.                  *)
(***************************************************************************)
Pow2(n) == 2^n

F64Zero(neg) == [cls |-> "zero", neg |-> neg, exp |-> 0, hi |-> 0, lo |-> 0]
F64Inf(neg) == [cls |-> "inf", neg |-> neg, exp |-> 0, hi |-> 0, lo |-> 0]
F64NaN == [cls |-> "nan", neg |-> FALSE, exp |-> 0, hi |-> 0, lo |-> 0]
\* the literal 1.0 (main.rs:24, 31)
F64One == [cls |-> "num", neg |-> FALSE, exp |-> 0, hi |-> Pow2(25), lo |-> 0]

\* the 56-bit number h * 2^28 + l (a significand followed by guard, round
\* and sticky bits) shifted right by d, a lost 1 kept in the last bit
ShiftRightSticky(h, l, d) ==
    LET raw == IF d = 0 THEN [h |-> h, l |-> l, lost |-> FALSE]
               ELSE IF d < 28
               THEN [h |-> h \div Pow2(d),
                     l |-> (h % Pow2(d)) * Pow2(28 - d) + l \div Pow2(d),
                     lost |-> l % Pow2(d) /= 0]
               ELSE IF d < 56
               THEN [h |-> 0,
                     l |-> h \div Pow2(d - 28),
                     lost |-> h % Pow2(d - 28) /= 0 \/ l /= 0]
               ELSE [h |-> 0, l |-> 0, lost |-> h /= 0 \/ l /= 0]
    IN [h |-> raw.h,
        l |-> IF raw.lost /\ raw.l % 2 = 0 THEN raw.l + 1 ELSE raw.l]

\* the 56-bit number h * 2^28 + l, whose upper 53 bits are a significand of
\* exponent exp, rounded to nearest (ties to even)
F64Round(neg, exp, h, l) ==
    LET hi0 == h \div 4
        lo0 == (h % 4) * Pow2(25) + l \div 8
        grs == l % 8
        up == grs > 4 \/ (grs = 4 /\ lo0 % 2 = 1)
        lo1 == IF up THEN lo0 + 1 ELSE lo0
        hi1 == IF lo1 = Pow2(27) THEN hi0 + 1 ELSE hi0
        lo2 == IF lo1 = Pow2(27) THEN 0 ELSE lo1
        over == hi1 = Pow2(26)
        hi2 == IF over THEN Pow2(25) ELSE hi1
        exp2 == IF over THEN exp + 1 ELSE exp
    IN IF hi2 = 0 /\ lo2 = 0 THEN F64Zero(neg)
       ELSE IF exp2 > 1023 THEN F64Inf(neg)
       ELSE [cls |-> "num", neg |-> neg, exp |-> exp2, hi |-> hi2, lo |-> lo2]

\* shift left until the leading bit is set (or the exponent is least), round
RECURSIVE F64Normalize(_, _, _, _)
F64Normalize(neg, exp, h, l) ==
    IF h >= Pow2(27) \/ exp = -1022 THEN F64Round(neg, exp, h, l)
    ELSE F64Normalize(neg, exp - 1, 2 * h + l \div Pow2(27), (2 * l) % Pow2(28))

\* |a| < |b| for two values that are neither NaN nor zero
F64MagLt(a, b) ==
    IF a.cls = "inf" THEN FALSE
    ELSE IF b.cls = "inf" THEN TRUE
    ELSE \/ a.exp < b.exp
         \/ a.exp = b.exp /\ a.hi < b.hi
         \/ a.exp = b.exp /\ a.hi = b.hi /\ a.lo < b.lo

\* a < b of f64 (false when either is NaN; -0.0 and 0.0 are equal)
F64Lt(a, b) ==
    LET sgn(x) == IF x.cls = "zero" THEN 0 ELSE IF x.neg THEN -1 ELSE 1 IN
    IF a.cls = "nan" \/ b.cls = "nan" THEN FALSE
    ELSE IF sgn(a) /= sgn(b) THEN sgn(a) < sgn(b)
    ELSE IF sgn(a) = 0 THEN FALSE
    ELSE IF sgn(a) = 1 THEN F64MagLt(a, b)
    ELSE F64MagLt(b, a)

\* a <= b of f64
F64Le(a, b) ==
    a.cls /= "nan" /\ b.cls /= "nan" /\ ~F64Lt(b, a)

\* x + y for two "num" with |x| >= |y|
F64AddMagnitudes(x, y) ==
    LET xh == x.hi * 4 + x.lo \div Pow2(25)
        xl == (x.lo % Pow2(25)) * 8
        Y == ShiftRightSticky(y.hi * 4 + y.lo \div Pow2(25),
                              (y.lo % Pow2(25)) * 8, x.exp - y.exp)
    IN IF x.neg = y.neg
       THEN LET l0 == xl + Y.l
                h0 == xh + Y.h + l0 \div Pow2(28)
                l1 == l0 % Pow2(28)
                S == ShiftRightSticky(h0, l1, 1)
            IN IF h0 >= Pow2(28)
               THEN F64Round(x.neg, x.exp + 1, S.h, S.l)
               ELSE F64Round(x.neg, x.exp, h0, l1)
       ELSE LET borrow == xl < Y.l
                l0 == IF borrow THEN xl + Pow2(28) - Y.l ELSE xl - Y.l
                h0 == xh - Y.h - (IF borrow THEN 1 ELSE 0)
            IN IF h0 = 0 /\ l0 = 0 THEN F64Zero(FALSE)
               ELSE F64Normalize(x.neg, x.exp, h0, l0)

\* a + b of f64 (main.rs:30, 37)
F64Add(a, b) ==
    IF a.cls = "nan" \/ b.cls = "nan" THEN F64NaN
    ELSE IF a.cls = "inf"
    THEN (IF b.cls = "inf" /\ a.neg /= b.neg THEN F64NaN ELSE a)
    ELSE IF b.cls = "inf" THEN b
    ELSE IF a.cls = "zero" /\ b.cls = "zero" THEN F64Zero(a.neg /\ b.neg)
    ELSE IF a.cls = "zero" THEN b
    ELSE IF b.cls = "zero" THEN a
    ELSE IF F64MagLt(a, b) THEN F64AddMagnitudes(b, a)
    ELSE F64AddMagnitudes(a, b)

\* f64::min (main.rs:32, 39): the possible results.  The other operand when
\* self is NaN, self when the other is NaN, the lesser of the two, and
\* either of them when they compare equal (0.0 and -0.0)
f64_min(self, other) ==
    IF self.cls = "nan" THEN {other}
    ELSE IF other.cls = "nan" THEN {self}
    ELSE IF F64Lt(other, self) THEN {other}
    ELSE IF F64Lt(self, other) THEN {self}
    ELSE {self, other}

\* f64::max (main.rs:33, 40): the possible results.  The other operand when
\* self is NaN, self when the other is NaN, the greater of the two, and
\* either of them when they compare equal (0.0 and -0.0)
f64_max(self, other) ==
    IF self.cls = "nan" THEN {other}
    ELSE IF other.cls = "nan" THEN {self}
    ELSE IF F64Lt(self, other) THEN {other}
    ELSE IF F64Lt(other, self) THEN {self}
    ELSE {self, other}

(***************************************************************************)
(* CityResult (main.rs:12-43)                                              *)
(***************************************************************************)
\* mutant: min starts at 0.0 (a default-initialised field) instead of temp
CityResult_from_ZeroMin(temp) ==
    [sum |-> temp, count |-> F64One, min |-> F64Zero(FALSE), max |-> temp]

CityResult_from(temp) ==
    [sum |-> temp, count |-> F64One, min |-> temp, max |-> temp]

\* the possible results of update (main.rs:29-34)
CityResult_update(self, temp) ==
    {[sum |-> F64Add(self.sum, temp),
      count |-> F64Add(self.count, F64One),
      min |-> lo,
      max |-> hi] : lo \in f64_min(self.min, temp),
                    hi \in f64_max(self.max, temp)}

\* the possible results of merge (main.rs:35-42)
CityResult_merge(self, other) ==
    {[sum |-> F64Add(self.sum, other.sum),
      count |-> F64Add(self.count, other.count),
      min |-> lo,
      max |-> hi] : lo \in f64_min(self.min, other.min),
                    hi \in f64_max(self.max, other.max)}

\* new_map!: a map is a function from keys (byte sequences) to CityResult
new_map == [k \in {} |-> CityResult_from(F64Zero(FALSE))]

(***************************************************************************)
(* get_aligned_buffer (main.rs:55-93).  The result tells whether the call  *)
(* panicked and otherwise gives the returned slice and where it lies in    *)
(* the file: bytes start .. end (end inclusive; end = start - 1 when       *)
(* the slice is empty).                                                    *)
(***************************************************************************)
BufferLen == CHUNK_SIZE + CHUNK_EXCESS

AlignPanic == [panic |-> TRUE, slice |-> <<>>, start |-> 0, end |-> -1]

\* mutant: the scan stops on the terminator itself, not after it
RECURSIVE ScanHead_OnTerminator(_, _)
ScanHead_OnTerminator(buffer, head) ==
    IF head = 0 THEN 0
    ELSE IF head - 1 >= Len(buffer) THEN -1
    ELSE IF At(buffer, head - 1) = NL THEN head - 1
    ELSE ScanHead_OnTerminator(buffer, head - 1)

\* while head > 0 { if buffer[head - 1] == b'\n' { break; } head -= 1 }
\* -1: buffer[head - 1] is out of range (panic)
RECURSIVE ScanHead(_, _)
ScanHead(buffer, head) ==
    IF head = 0 THEN 0
    ELSE IF head - 1 >= Len(buffer) THEN -1
    ELSE IF At(buffer, head - 1) = NL THEN head
    ELSE ScanHead(buffer, head - 1)

\* while buffer[tail] != b'\n' { tail -= 1; }
\* -1: tail underflows or buffer[tail] is out of range (panic in every build)
RECURSIVE ScanTail(_, _)
ScanTail(buffer, tail) ==
    IF tail < 0 THEN -1
    ELSE IF At(buffer, tail) = NL THEN tail
    ELSE ScanTail(buffer, tail - 1)

get_aligned_buffer(f, offset) ==
    LET file_size == Len(f) IN
    IF offset > file_size
    THEN [panic |-> FALSE, slice |-> <<>>, start |-> offset, end |-> offset - 1]
    ELSE
      LET buffer_size == Min(BufferLen, file_size - offset)
          read_from == IF offset = 0 THEN 0 ELSE offset - CHUNK_EXCESS
          head0 == IF offset = 0 THEN 0 ELSE CHUNK_EXCESS
      IN
      \* read_exact_at(buffer, read_from).unwrap()
      IF read_from + buffer_size > file_size THEN AlignPanic
      ELSE
        LET buffer == Slice(f, read_from, read_from + buffer_size)
            head == ScanHead(buffer, head0)
            \* buffer.len() - 1 underflows on an empty buffer
            tail == ScanTail(buffer, Len(buffer) - 1)
        IN
        IF head < 0 \/ tail < 0 \/ head > tail + 1 THEN AlignPanic
        ELSE [panic |-> FALSE,
              slice |-> Slice(buffer, head, tail + 1),
              start |-> read_from + head,
              end |-> read_from + tail]

(***************************************************************************)
(* process_buffer, parsing part (main.rs:104-120)                          *)
(***************************************************************************)
\* aligned_buffer.split(|&b| b == b'\n'): the fragments between terminators,
\* the (possibly empty) one after the last terminator included
RECURSIVE SplitLines(_, _)
SplitLines(s, cur) ==
    IF s = <<>> THEN <<cur>>
    ELSE IF Head(s) = NL THEN <<cur>> \o SplitLines(Tail(s), <<>>)
    ELSE SplitLines(Tail(s), Append(cur, Head(s)))

\* .filter(|line| !line.is_empty())
Lines(s) == SelectSeq(SplitLines(s, <<>>), LAMBDA line : line /= <<>>)

\* line.iter().enumerate().find_map(|(index, &b)| (b == b';').then_some(index))
\* -1: None
FindSplitPoint(line) ==
    LET hits == {i \in 0..(Len(line) - 1) : At(line, i) = SEMI} IN
    IF hits = {} THEN -1
    ELSE CHOOSE i \in hits : \A j \in hits : i <= j

\* std::str::from_utf8(bytes).is_ok() for the bytes from index i on: every
\* character is well-formed UTF-8 (no overlong form, no surrogate, nothing
\* above U+10FFFF)
RECURSIVE Utf8From(_, _)
Utf8From(bytes, i) ==
    LET c == bytes[i]
        in(j, lo, hi) == j <= Len(bytes) /\ bytes[j] >= lo /\ bytes[j] <= hi
    IN IF i > Len(bytes) THEN TRUE
       ELSE IF c < 128 THEN Utf8From(bytes, i + 1)
       ELSE IF c >= 194 /\ c <= 223
       THEN in(i + 1, 128, 191) /\ Utf8From(bytes, i + 2)
       ELSE IF c >= 224 /\ c <= 239
       THEN /\ in(i + 1, (IF c = 224 THEN 160 ELSE 128),
                          (IF c = 237 THEN 159 ELSE 191))
            /\ in(i + 2, 128, 191)
            /\ Utf8From(bytes, i + 3)
       ELSE IF c >= 240 /\ c <= 244
       THEN /\ in(i + 1, (IF c = 240 THEN 144 ELSE 128),
                          (IF c = 244 THEN 143 ELSE 191))
            /\ in(i + 2, 128, 191)
            /\ in(i + 3, 128, 191)
            /\ Utf8From(bytes, i + 4)
       ELSE FALSE

\* std::str::from_utf8(bytes).is_ok() (main.rs:115, 124)
from_utf8_ok(bytes) == Utf8From(bytes, 1)

(***************************************************************************)
(* str::parse::<f64> (main.rs:116): the literal is read as the decimal      *)
(* number it writes and rounded to the nearest f64                         *)
(***************************************************************************)
IsDigit(b) == b >= 48 /\ b <= 57
AllDigits(s) == \A i \in 1..Len(s) : IsDigit(s[i])
IsZeroDigits(q) == \A i \in 1..Len(q) : q[i] = 0

\* ASCII upper case to lower case
ToLower(s) == [i \in 1..Len(s) |-> IF s[i] >= 65 /\ s[i] <= 90 THEN s[i] + 32 ELSE s[i]]

\* the decimal digits q (most significant first) halved, the remainder dropped
HalveDigits(q) ==
    <<>> \o [i \in 1..Len(q) |->
               (q[i] + (IF i > 1 /\ q[i - 1] % 2 = 1 THEN 10 ELSE 0)) \div 2]

\* one binary digit of the whole number st.q moved to st.bits
HalveStep(st) ==
    IF IsZeroDigits(st.q) THEN st
    ELSE [q |-> HalveDigits(st.q), bits |-> <<st.q[Len(st.q)] % 2>> \o st.bits]

RECURSIVE HalveTimes(_, _)
HalveTimes(n, st) ==
    IF n = 0 THEN st
    ELSE IF n = 1 THEN HalveStep(st)
    ELSE LET half == HalveTimes(n \div 2, st) IN
         IF half.q = <<>> THEN half ELSE HalveTimes(n - n \div 2, half)

\* the binary digits (most significant first) of the decimal digits q
BinaryOfDigits(q) == HalveTimes(4 * Len(q), [q |-> q, bits |-> <<>>]).bits

\* the decimal digits r of a fraction 0.r doubled, the carry out of the
\* first digit dropped
DoubleDigits(r) ==
    <<>> \o [i \in 1..Len(r) |->
               ((2 * r[i]) % 10) + (IF i < Len(r) /\ r[i + 1] >= 5 THEN 1 ELSE 0)]

\* one more binary digit of the fraction 0.r: st.acc holds the digits from
\* the first 1 on (<<>> until then), st.p the exponent of that 1, st.i the
\* number of digits produced; nothing is done once the round bit is there
FractionStep(st) ==
    LET e == IF st.acc = <<>> THEN -1022 ELSE Max(st.p, -1022)
        bit == IF st.r /= <<>> /\ st.r[1] >= 5 THEN 1 ELSE 0
    IN IF st.i = 53 - e THEN st
       ELSE IF st.acc = <<>> /\ bit = 0
       THEN [r |-> DoubleDigits(st.r), acc |-> st.acc, p |-> st.p, i |-> st.i + 1]
       ELSE [r |-> DoubleDigits(st.r),
             acc |-> Append(st.acc, bit),
             p |-> IF st.acc = <<>> THEN 0 - (st.i + 1) ELSE st.p,
             i |-> st.i + 1]

RECURSIVE FractionTimes(_, _)
FractionTimes(n, st) ==
    IF n = 0 THEN st
    ELSE IF n = 1 THEN FractionStep(st)
    ELSE LET half == FractionTimes(n \div 2, st) IN
         IF half.r = <<>> /\ half.acc = <<>> THEN half
         ELSE FractionTimes(n - n \div 2, half)

RECURSIVE BitsValue(_)
BitsValue(bits) ==
    IF bits = <<>> THEN 0
    ELSE 2 * BitsValue(SubSeq(bits, 1, Len(bits) - 1)) + bits[Len(bits)]

\* the f64 nearest to the number whose binary digits from the first 1 (of
\* exponent p) are acc: 53 digits and the round bit; sticky: more 1s follow
F64OfBits(neg, acc, p, sticky) ==
    IF acc = <<>> THEN F64Zero(neg)
    ELSE IF p > 1023 THEN F64Inf(neg)
    ELSE LET e == Max(p, -1022)
             window == [i \in 1..(e - p) |-> 0] \o acc
             hi == BitsValue(SubSeq(window, 1, 26))
             lo == BitsValue(SubSeq(window, 27, 53))
         IN F64Round(neg, e, hi * 4 + lo \div Pow2(25),
                     (lo % Pow2(25)) * 8 + 4 * window[54]
                         + (IF sticky THEN 1 ELSE 0))

\* the f64 nearest to 0.d1 d2 ... * 10^point, d1 d2 ... the decimal digits
DecimalToF64(neg, digits, point) ==
    LET nonzero == {i \in 1..Len(digits) : digits[i] /= 0}
        first == CHOOSE i \in nonzero : \A j \in nonzero : i <= j
        last == CHOOSE i \in nonzero : \A j \in nonzero : i >= j
        w == SubSeq(digits, first, last)
        pos == point - (first - 1)
    IN IF nonzero = {} THEN F64Zero(neg)
       ELSE IF pos > 310 THEN F64Inf(neg)
       ELSE IF pos < -330 THEN F64Zero(neg)
       ELSE
         LET whole == IF pos <= 0 THEN <<>>
                      ELSE IF pos >= Len(w)
                      THEN w \o [i \in 1..(pos - Len(w)) |-> 0]
                      ELSE SubSeq(w, 1, pos)
             frac == IF pos <= 0 THEN [i \in 1..(0 - pos) |-> 0] \o w
                     ELSE IF pos >= Len(w) THEN <<>>
                     ELSE SubSeq(w, pos + 1, Len(w))
             bits == BinaryOfDigits(whole)
             g == FractionTimes(Min(1075, 55 + 4 * Len(frac)),
                                [r |-> frac, acc |-> bits, p |-> Len(bits) - 1, i |-> 0])
         IN IF Len(bits) >= 54
            THEN F64OfBits(neg, SubSeq(bits, 1, 54), Len(bits) - 1,
                           (\E i \in 55..Len(bits) : bits[i] = 1)
                               \/ ~IsZeroDigits(frac))
            ELSE IF frac = <<>>
            THEN F64OfBits(neg, bits \o [i \in 1..(54 - Len(bits)) |-> 0],
                           Len(bits) - 1, FALSE)
            ELSE F64OfBits(neg, g.acc, g.p, ~IsZeroDigits(g.r))

\* the exponent that the digits after e or E give: a digit is taken in
\* (10 * exponent + digit) only while the exponent so far is below 0x10000
RECURSIVE DigitsValue(_)
DigitsValue(s) ==
    IF s = <<>> THEN 0
    ELSE LET exponent == DigitsValue(SubSeq(s, 1, Len(s) - 1)) IN
         IF exponent < 65536 THEN 10 * exponent + (s[Len(s)] - 48)
         ELSE exponent

\* temp.parse::<f64>() (main.rs:116).  The grammar of f64::from_str: an
\* optional sign, then inf, infinity or nan in any case, or digits with an
\* optional '.' (a digit on one side of it at least) and an optional exponent
\* e or E, optional sign, digits
parse_f64(s) ==
    LET signed == Len(s) > 0 /\ s[1] \in {43, 45}
        neg == Len(s) > 0 /\ s[1] = 45
        body == IF signed THEN Tail(s) ELSE s
        word == ToLower(body)
        marks == {i \in 1..Len(body) : body[i] \in {69, 101}}
        mark == IF marks = {} THEN Len(body) + 1
                ELSE CHOOSE i \in marks : \A j \in marks : i <= j
        number == SubSeq(body, 1, mark - 1)
        exponent == SubSeq(body, mark + 1, Len(body))
        esigned == Len(exponent) > 0 /\ exponent[1] \in {43, 45}
        edigits == IF esigned THEN Tail(exponent) ELSE exponent
        dots == {i \in 1..Len(number) : number[i] = 46}
        dot == IF dots = {} THEN Len(number) + 1 ELSE CHOOSE i \in dots : TRUE
        ip == SubSeq(number, 1, dot - 1)
        fp == SubSeq(number, dot + 1, Len(number))
        ok == /\ Cardinality(dots) <= 1
              /\ AllDigits(ip) /\ AllDigits(fp)
              /\ Len(ip) + Len(fp) > 0
              /\ marks /= {} => (edigits /= <<>> /\ AllDigits(edigits))
        e10 == IF marks = {} THEN 0
               ELSE IF exponent[1] = 45 THEN 0 - DigitsValue(edigits)
               ELSE DigitsValue(edigits)
        digits == [i \in 1..(Len(ip) + Len(fp)) |->
                     (IF i <= Len(ip) THEN ip[i] ELSE fp[i - Len(ip)]) - 48]
    IN IF word \in {<<105, 110, 102>>, <<105, 110, 102, 105, 110, 105, 116, 121>>}
       THEN [ok |-> TRUE, val |-> F64Inf(neg)]
       ELSE IF word = <<110, 97, 110>>
       THEN [ok |-> TRUE, val |-> F64NaN]
       ELSE IF ok
       THEN [ok |-> TRUE, val |-> DecimalToF64(neg, digits, Len(ip) + e10)]
       ELSE [ok |-> FALSE, val |-> F64NaN]

\* map.entry(city).and_modify(|r| r.update(temp)).or_insert_with(|| from(temp)):
\* the possible maps
Observe(map, city, temp) ==
    LET entries == IF city \in DOMAIN map
                   THEN CityResult_update(map[city], temp)
                   ELSE {CityResult_from(temp)}
    IN {[k \in DOMAIN map \cup {city} |-> IF k = city THEN e ELSE map[k]] :
           e \in entries}

\* the for loop of main.rs:104-120 over the lines still to be read: the
\* possible outcomes; panic: one of the unwraps of main.rs:112, 115, 116 failed
RECURSIVE Aggregate(_, _)
Aggregate(lines, map) ==
    IF lines = <<>> THEN {[panic |-> FALSE, map |-> map]}
    ELSE
      LET line == Head(lines)
          split_point == FindSplitPoint(line)
      IN
      IF split_point < 0 THEN {[panic |-> TRUE, map |-> map]}
      ELSE
        LET city == Slice(line, 0, split_point)
            temp == Slice(line, split_point + 1, Len(line))
            parsed == parse_f64(temp)
        IN
        IF ~from_utf8_ok(temp) \/ ~parsed.ok THEN {[panic |-> TRUE, map |-> map]}
        ELSE UNION {Aggregate(Tail(lines), m) :
                       m \in Observe(map, city, parsed.val)}

ParseBuffer(aligned_buffer) == Aggregate(Lines(aligned_buffer), new_map)

\* the (city, temp) pairs that the loop reads from a buffer it gets through
Observed(aligned_buffer) ==
    LET lines == Lines(aligned_buffer) IN
    {LET split_point == FindSplitPoint(lines[i]) IN
     [key |-> Slice(lines[i], 0, split_point),
      val |-> parse_f64(Slice(lines[i], split_point + 1, Len(lines[i]))).val] :
        i \in 1..Len(lines)}

(***************************************************************************)
(* process_buffer, merging part (main.rs:122-129), run with the lock held  *)
(***************************************************************************)
\* mutant: the map is cleared before the entry is put in
MergeEntry_Clearing(outer, city, city_result) ==
    LET entries == IF city \in DOMAIN outer
                   THEN CityResult_merge(outer[city], city_result)
                   ELSE {city_result}
    IN {[k \in {city} |-> e] : e \in entries}

\* outer.entry(city).and_modify(|o| *o = o.merge(city_result)).or_insert(city_result):
\* the possible maps
MergeEntry(outer, city, city_result) ==
    LET entries == IF city \in DOMAIN outer
                   THEN CityResult_merge(outer[city], city_result)
                   ELSE {city_result}
    IN {[k \in DOMAIN outer \cup {city} |-> IF k = city THEN e ELSE outer[k]] :
           e \in entries}

\* the entries of map at the given keys merged into outer, the possible
\* maps: the entries have distinct keys, so the order of the iteration does
\* not change them
RECURSIVE MergeEntries(_, _, _)
MergeEntries(outer, map, keys) ==
    IF keys = {} THEN {outer}
    ELSE LET city == CHOOSE k \in keys : TRUE IN
         UNION {MergeEntries(o, map, keys \ {city}) :
                   o \in MergeEntry(outer, city, map[city])}

\* for (city, city_result) in map.into_iter() { from_utf8(city).unwrap(); .. }
\* (main.rs:123-129): the possible outcomes.  When a key is not UTF-8 the
\* loop panics on reaching it, and the HashMap's iteration order decides
\* which of the other entries have been merged by then.
MergeInto(outer, map) ==
    LET good == {k \in DOMAIN map : from_utf8_ok(k)} IN
    IF good = DOMAIN map
    THEN {[panic |-> FALSE, outer |-> o] : o \in MergeEntries(outer, map, good)}
    ELSE UNION {{[panic |-> TRUE, outer |-> o] :
                    o \in MergeEntries(outer, map, done)} : done \in SUBSET good}

\* process_buffer up to the lock (main.rs:101-120): the possible local maps
\* of the chunk at a nominal offset, or a panic
LocalResult(f, off) ==
    LET a == get_aligned_buffer(f, off) IN
    IF a.panic THEN {[panic |-> TRUE, map |-> new_map]}
    ELSE ParseBuffer(a.slice)

\* the loop of main.rs:145-151 run by one thread alone from cursor off, and
\* what distribute_work then does: the possible ends.  It returns the map, or
\* it panics; result is then the map as the panic left it, which after a
\* panic inside the merge loop holds the entries merged before it
RECURSIVE SingleThreadRun(_, _, _)
SingleThreadRun(f, off, outer) ==
    IF off > Len(f) THEN {[main |-> "returned", result |-> outer]}
    ELSE UNION {IF r.panic
                THEN {[main |-> "panicked", result |-> outer]}
                ELSE UNION {IF m.panic
                            THEN {[main |-> "panicked", result |-> m.outer]}
                            ELSE SingleThreadRun(f, off + CHUNK_SIZE, m.outer) :
                               m \in MergeInto(outer, r.map)} :
                   r \in LocalResult(f, off)}

(***************************************************************************)
(* distribute_work (main.rs:132-157): the state                            *)
(***************************************************************************)
VARIABLES
    file,            \* the bytes of the input file
    nthreads,        \* thread::available_parallelism()
    offset,          \* the shared AtomicU64 cursor (main.rs:136)
    result,          \* the map inside Arc<Mutex<..>> (main.rs:137)
    lock,            \* the thread holding the mutex, 0 when it is free
    poisoned,        \* the mutex is poisoned: a thread panicked holding it
    pc,              \* where each spawned thread stands
    thread_offset,   \* each thread's thread_offset (main.rs:146)
    aligned_buffer,  \* each thread's aligned_buffer (main.rs:101)
    map,             \* each thread's local map (main.rs:102)
    main,            \* "scope": threads running; "returned"; "panicked"
    claimed,         \* history: who was returned what by fetch_add, in order
    ranges,          \* history: the aligned range found for each offset
    merged,          \* history: who merged the local map of which offset
    reordered,       \* history: a chunk was merged after a later chunk
    observed         \* history: the (city, temp) pairs read from each chunk

vars == <<file, nthreads, offset, result, lock, poisoned, pc, thread_offset,
          aligned_buffer, map, main, claimed, ranges, merged, reordered,
          observed>>

Threads == 1..nthreads
file_size == Len(file)

InitWith(files) ==
    /\ file \in files
    /\ nthreads \in 1..MaxThreads
    /\ offset = 0
    /\ result = new_map
    /\ lock = 0
    /\ poisoned = FALSE
    /\ pc = [t \in 1..nthreads |-> "claim"]
    /\ thread_offset = [t \in 1..nthreads |-> 0]
    /\ aligned_buffer = [t \in 1..nthreads |-> <<>>]
    /\ map = [t \in 1..nthreads |-> new_map]
    /\ main = "scope"
    /\ claimed = <<>>
    /\ ranges = {}
    /\ merged = {}
    /\ reordered = FALSE
    /\ observed = {}

Init == InitWith(WellFormedFiles)

\* offset.fetch_add(CHUNK_SIZE, SeqCst) and the test of main.rs:147: one
\* atomic read-modify-write, then a test of the thread's own value
\* mutant: offset.load(SeqCst), the cursor is read and not advanced
FetchAdd_Load(t) ==
    /\ thread_offset' = [thread_offset EXCEPT ![t] = offset]
    /\ offset' = offset
    /\ claimed' = Append(claimed, [thread |-> t, offset |-> offset])

FetchAdd(t) ==
    /\ thread_offset' = [thread_offset EXCEPT ![t] = offset]
    /\ offset' = offset + CHUNK_SIZE
    /\ claimed' = Append(claimed, [thread |-> t, offset |-> offset])

\* if thread_offset > file_size { break; } (main.rs:147-149)
LoopTest(off) == IF off > file_size THEN "done" ELSE "align"

Claim(t) ==
    /\ pc[t] = "claim"
    /\ FetchAdd(t)
    /\ pc' = [pc EXCEPT ![t] = LoopTest(thread_offset'[t])]
    /\ UNCHANGED <<file, nthreads, result, lock, poisoned, aligned_buffer, map,
                   main, ranges, merged, reordered, observed>>

\* main.rs:101
Align(t) ==
    /\ pc[t] = "align"
    /\ LET r == get_aligned_buffer(file, thread_offset[t]) IN
         IF r.panic
         THEN /\ pc' = [pc EXCEPT ![t] = "panicked"]
              /\ UNCHANGED <<aligned_buffer, ranges>>
         ELSE /\ pc' = [pc EXCEPT ![t] = "parse"]
              /\ aligned_buffer' = [aligned_buffer EXCEPT ![t] = r.slice]
              /\ ranges' = ranges \cup
                    {[offset |-> thread_offset[t], start |-> r.start, end |-> r.end]}
    /\ UNCHANGED <<file, nthreads, offset, result, lock, poisoned,
                   thread_offset, map, main, claimed, merged, reordered,
                   observed>>

\* main.rs:102-120
Parse(t) ==
    /\ pc[t] = "parse"
    /\ \E r \in ParseBuffer(aligned_buffer[t]) :
         IF r.panic
         THEN /\ pc' = [pc EXCEPT ![t] = "panicked"]
              /\ UNCHANGED <<map, observed>>
         ELSE /\ pc' = [pc EXCEPT ![t] = "lock"]
              /\ map' = [map EXCEPT ![t] = r.map]
              /\ observed' = observed \cup
                    {[offset |-> thread_offset[t], key |-> o.key, val |-> o.val] :
                        o \in Observed(aligned_buffer[t])}
    /\ UNCHANGED <<file, nthreads, offset, result, lock, poisoned,
                   thread_offset, aligned_buffer, main, claimed, ranges, merged,
                   reordered>>

\* thread_result.lock().unwrap() (main.rs:122): waits until the mutex is
\* free; lock() then returns Err(PoisonError) when the mutex is poisoned, and
\* unwrap panics, the guard inside the error being dropped at once
\* mutant: the lock is taken without waiting for it to be free
MutexFree_Unguarded == TRUE

MutexFree == lock = 0

Lock(t) ==
    /\ pc[t] = "lock"
    /\ MutexFree
    /\ IF poisoned
       THEN /\ pc' = [pc EXCEPT ![t] = "panicked"]
            /\ lock' = lock
       ELSE /\ pc' = [pc EXCEPT ![t] = "merge"]
            /\ lock' = t
    /\ UNCHANGED <<file, nthreads, offset, result, poisoned, thread_offset,
                   aligned_buffer, map, main, claimed, ranges, merged, reordered,
                   observed>>

\* main.rs:123-130: the merge loop, then the guard and the local map are
\* dropped and the thread goes round its loop again; when the loop panics
\* (main.rs:124) the guard is dropped by the unwinding, which poisons the
\* mutex, and the entries merged so far stay in the global map
Merge(t) ==
    /\ pc[t] = "merge"
    /\ \E m \in MergeInto(result, map[t]) :
          /\ result' = m.outer
          /\ IF m.panic
             THEN /\ poisoned' = TRUE
                  /\ pc' = [pc EXCEPT ![t] = "panicked"]
                  /\ UNCHANGED <<merged, reordered>>
             ELSE /\ poisoned' = poisoned
                  /\ pc' = [pc EXCEPT ![t] = "claim"]
                  /\ merged' = merged \cup
                        {[thread |-> t, offset |-> thread_offset[t]]}
                  /\ reordered' =
                        (reordered \/ \E x \in merged : x.offset > thread_offset[t])
    /\ lock' = 0
    /\ map' = [map EXCEPT ![t] = new_map]
    /\ aligned_buffer' = [aligned_buffer EXCEPT ![t] = <<>>]
    /\ UNCHANGED <<file, nthreads, offset, thread_offset, main, claimed, ranges,
                   observed>>

\* the end of thread::scope (main.rs:139-154) and main.rs:156: every thread
\* is joined; the scope panics when a thread panicked, and into_inner()
\* .unwrap() panics when the mutex is poisoned; otherwise the map is returned
Join ==
    /\ main = "scope"
    /\ \A t \in Threads : pc[t] \in {"done", "panicked"}
    /\ main' = IF poisoned \/ \E t \in Threads : pc[t] = "panicked"
               THEN "panicked" ELSE "returned"
    /\ UNCHANGED <<file, nthreads, offset, result, lock, poisoned, pc,
                   thread_offset, aligned_buffer, map, claimed, ranges, merged,
                   reordered, observed>>

Next ==
    \/ \E t \in Threads : Claim(t)
    \/ \E t \in Threads : Align(t)
    \/ \E t \in Threads : Parse(t)
    \/ \E t \in Threads : Lock(t)
    \/ \E t \in Threads : Merge(t)
    \/ Join

Spec == Init /\ [][Next]_vars

\* the same program run on an ill-formed file
IllFormedSpec == InitWith(IllFormedFiles) /\ [][Next]_vars

\* the same program run on a well-formed file, those with zeros of both
\* signs included
SignedZeroSpec == InitWith(WellFormedFiles \cup SignedZeroFiles) /\ [][Next]_vars

\* the same program run on a file with a value nan
NanSpec == InitWith(NanFiles) /\ [][Next]_vars

(***************************************************************************)
(* What the claims speak of                                                *)
(***************************************************************************)
\* the records of a file: first byte .. terminator, as 0-based positions
\* (f[j] is the byte at position j - 1, so the byte after it is at position j)
RecordSpans(f) ==
    {[start |-> (IF \E j \in 1..i : f[j] = NL
                 THEN (CHOOSE j \in 1..i : f[j] = NL /\ \A k \in (j + 1)..i : f[k] /= NL)
                 ELSE 0),
      end |-> i] : i \in {i \in 0..(Len(f) - 1) : At(f, i) = NL}}

\* the nominal offsets a thread goes on to process: k * CHUNK_SIZE <= file size
InRangeOffsets(f) == {k * CHUNK_SIZE : k \in 0..(Len(f) \div CHUNK_SIZE)}

\* two ranges share a byte
Overlap(r1, r2) == Max(r1.start, r2.start) <= Min(r1.end, r2.end)

Finished == main /= "scope"
MergesBy(t) == {m.offset : m \in {x \in merged : x.thread = t}}
ClaimsBy(t) ==
    {claimed[i].offset : i \in {j \in 1..Len(claimed) : claimed[j].thread = t}}

\* the natural number that decimal digits write
RECURSIVE NaturalOf(_)
NaturalOf(s) ==
    IF s = <<>> THEN 0
    ELSE 10 * NaturalOf(SubSeq(s, 1, Len(s) - 1)) + (s[Len(s)] - 48)

\* the number a value of the input files writes (an optional sign, digits,
\* an optional '.' and at most one fractional digit), in tenths
TenthsOf(s) ==
    LET body == IF s[1] \in {43, 45} THEN Tail(s) ELSE s
        dots == {i \in 1..Len(body) : body[i] = 46}
        dot == IF dots = {} THEN Len(body) + 1 ELSE CHOOSE i \in dots : TRUE
        mag == 10 * NaturalOf(SubSeq(body, 1, dot - 1))
                  + NaturalOf(SubSeq(body, dot + 1, Len(body)))
    IN IF s[1] = 45 THEN 0 - mag ELSE mag

\* the decimal digits of a natural number
RECURSIVE DigitsOf(_)
DigitsOf(n) == IF n < 10 THEN <<n>> ELSE Append(DigitsOf(n \div 10), n % 10)

\* the f64 nearest to n tenths
F64OfTenths(n) ==
    LET d == DigitsOf(IF n < 0 THEN 0 - n ELSE n) IN
    DecimalToF64(n < 0, d, Len(d) - 1)

\* the f64 of a natural number
F64OfNat(n) == DecimalToF64(FALSE, DigitsOf(n), Len(DigitsOf(n)))

\* the observations of a file, read record by record: the key, the value as
\* the program reads it, and the number the value writes, in tenths
Observations(f) ==
    LET lines == Lines(f) IN
    <<>> \o [i \in 1..Len(lines) |->
                LET sp == FindSplitPoint(lines[i])
                    temp == Slice(lines[i], sp + 1, Len(lines[i]))
                IN [key |-> Slice(lines[i], 0, sp),
                    val |-> parse_f64(temp).val,
                    tenths |-> TenthsOf(temp)]]

RECURSIVE SumOf(_, _)
SumOf(g, S) ==
    IF S = {} THEN 0
    ELSE LET x == CHOOSE y \in S : TRUE IN g[x] + SumOf(g, S \ {x})

\* sum, count, min and max of the values observed for each key of the file:
\* the sum is the exact sum of the numbers written, as the nearest f64
TrueStatistics(f) ==
    LET obs == Observations(f)
        at(key) == {i \in 1..Len(obs) : obs[i].key = key}
    IN [key \in {obs[i].key : i \in 1..Len(obs)} |->
          [sum |-> F64OfTenths(SumOf([i \in 1..Len(obs) |-> obs[i].tenths],
                                     at(key))),
           count |-> F64OfNat(Cardinality(at(key))),
           min |-> CHOOSE v \in {obs[i].val : i \in at(key)} :
                      \A i \in at(key) : F64Le(v, obs[i].val),
           max |-> CHOOSE v \in {obs[i].val : i \in at(key)} :
                      \A i \in at(key) : F64Le(obs[i].val, v)]]

\* C1: when distribute_work has returned, every record of the file lies
\* inside the aligned range found for at least one of the issued offsets
C1_NoRecordDropped ==
    main = "returned" =>
        \A rec \in RecordSpans(file) :
            \E r \in ranges : r.start <= rec.start /\ rec.end <= r.end

\* C2: the aligned ranges found for two distinct nominal offsets share no byte
C2_RangesDisjoint ==
    \A r1, r2 \in ranges : r1.offset /= r2.offset => ~Overlap(r1, r2)

\* C3: when distribute_work has returned, the map holds exactly the keys of
\* the file, each with the sum, count, min and max of its values
C3_AggregationCorrect ==
    main = "returned" => result = TrueStatistics(file)

\* the local maps of the chunks of a file that do not panic, merged one after
\* another in the order of their offsets, from offset off on: the possible maps
RECURSIVE MergeChunksFrom(_, _, _)
MergeChunksFrom(f, off, outer) ==
    IF off > Len(f) THEN {outer}
    ELSE UNION {IF r.panic THEN MergeChunksFrom(f, off + CHUNK_SIZE, outer)
                ELSE UNION {MergeChunksFrom(f, off + CHUNK_SIZE, o) :
                               o \in MergeEntries(outer, r.map, DOMAIN r.map)} :
                   r \in LocalResult(f, off)}

ChunkwiseStatistics(f) == MergeChunksFrom(f, 0, new_map)

\* C4: whatever the interleaving of claims, alignments, parses and locked
\* merges, the run ends the same way for a given file: it returns unless a
\* chunk panics, and the global map is the one that merging the chunks'
\* local maps in the order of their offsets gives
C4_ScheduleIndependent ==
    Finished =>
        /\ main = (IF \E o \in InRangeOffsets(file) :
                         \E r \in LocalResult(file, o) : r.panic
                   THEN "panicked" ELSE "returned")
        /\ result \in ChunkwiseStatistics(file)

\* C5: a run with any number of threads ends as the run of a single thread
\* ends, and when it returns, with the same statistics for every key
C5_SingleMultiEquivalent ==
    Finished =>
        \E single \in SingleThreadRun(file, 0, new_map) :
            /\ main = single.main
            /\ main = "returned" => result = single.result

\* C6: every claim returns the cursor's value before the increment and adds
\* CHUNK_SIZE: the returned offsets are multiples of CHUNK_SIZE, strictly
\* increasing in claim order, and no two claims return the same offset
C6_UniqueChunkOffsets ==
    /\ offset = Len(claimed) * CHUNK_SIZE
    /\ \A i \in 1..Len(claimed) :
          /\ claimed[i].offset % CHUNK_SIZE = 0
          /\ claimed[i].offset = (i - 1) * CHUNK_SIZE
    /\ \A i, j \in 1..Len(claimed) :
          i < j => claimed[i].offset < claimed[j].offset
    /\ \A t \in Threads :
          ClaimsBy(t) /= {} => thread_offset[t] \in ClaimsBy(t)
    /\ \A t, u \in Threads :
          t /= u => ClaimsBy(t) \cap ClaimsBy(u) = {}

\* two threads have each claimed, alternately
C6_Witness ==
    /\ Len(claimed) >= 3
    /\ claimed[1].thread /= claimed[2].thread
    /\ claimed[3].thread = claimed[1].thread

\* C7: at most one thread is inside the merge, the lock is held exactly by a
\* thread that is merging (never by one that claims, aligns or parses), and
\* the global map changes only in a step of the thread that holds the lock
C7_MergeMutualExclusion ==
    /\ [](/\ Cardinality({t \in Threads : pc[t] = "merge"}) <= 1
          /\ \A t \in Threads : (lock = t) <=> (pc[t] = "merge")
          /\ lock \in {0} \cup Threads)
    /\ [][result' /= result =>
            /\ lock \in Threads
            /\ pc[lock] = "merge"
            /\ pc'[lock] /= "merge"
            /\ lock' = 0]_vars

\* a thread holds the lock while another waits for it and the map is not empty
C7_Witness ==
    \E t, u \in Threads :
        /\ pc[t] = "merge" /\ lock = t
        /\ pc[u] = "lock"
        /\ result /= new_map

\* C8: a thread holds the lock and merges only after its claim loop has
\* ended (its claim was beyond the file size), it never merges a second
\* time, and at the end of the run it has merged exactly once
C8_MergeOncePerWorker ==
    \A t \in Threads :
        /\ pc[t] = "merge" => thread_offset[t] > file_size
        /\ Cardinality(MergesBy(t)) <= 1
        /\ (main = "returned") => Cardinality(MergesBy(t)) = 1

\* C9: once every thread has been joined, each thread has left its loop by
\* the break of main.rs:148 and distribute_work has returned the map: no
\* run of a well-formed file ends otherwise
C9_Termination ==
    Finished => (main = "returned" /\ \A t \in Threads : pc[t] = "done")

\* C10: on the empty file distribute_work ends normally, with an empty map
C10_EmptyFile ==
    (file = <<>> /\ Finished) => (main = "returned" /\ result = new_map)

\* C11: on a file of exactly one record key;value, distribute_work returns a
\* map with that key alone, with count = 1 and min = max = sum = value
C11_SingleRecord ==
    (Cardinality(RecordSpans(file)) = 1 /\ Finished) =>
        LET obs == Observations(file)[1] IN
        /\ main = "returned"
        /\ DOMAIN result = {obs.key}
        /\ result[obs.key] =
              [sum |-> obs.val, count |-> F64One, min |-> obs.val, max |-> obs.val]

\* a run of several threads on a one-record file has returned
C11_Witness ==
    /\ Cardinality(RecordSpans(file)) = 1
    /\ nthreads > 1
    /\ main = "returned"
    /\ result /= new_map

\* the records on a chunk boundary: the terminator is the last byte before
\* k * CHUNK_SIZE, or the first byte is at k * CHUNK_SIZE, for some k >= 1
BoundaryRecords(f) ==
    {r \in RecordSpans(f) :
        \E k \in 1..(Len(f) \div CHUNK_SIZE) :
            r.end = k * CHUNK_SIZE - 1 \/ r.start = k * CHUNK_SIZE}

\* the aligned ranges that hold the whole of record r
RangesHolding(r) == {g \in ranges : g.start <= r.start /\ r.end <= g.end}

\* C12: a record that ends right before k * CHUNK_SIZE or starts at
\* k * CHUNK_SIZE (k >= 1) is never in the aligned ranges of two chunks, and
\* once the run is over it is in the aligned range of exactly one
C12_BoundaryRecordOnce ==
    \A r \in BoundaryRecords(file) :
        /\ Cardinality(RangesHolding(r)) <= 1
        /\ Finished => Cardinality(RangesHolding(r)) = 1

\* some record fragment of f lacks the separator, or its value bytes are not
\* a numeric literal
HasFormatError(f) ==
    \E i \in 1..Len(Lines(f)) :
        LET line == Lines(f)[i]
            sp == FindSplitPoint(line)
        IN \/ sp < 0
           \/ ~from_utf8_ok(Slice(line, sp + 1, Len(line)))
           \/ ~parse_f64(Slice(line, sp + 1, Len(line))).ok

\* C13: when a record fragment of the file has no separator or no valid
\* numeric value, the run ends in a panic and distribute_work returns no map
C13_FormatErrorsAbort ==
    (HasFormatError(file) /\ Finished) => main = "panicked"

\* the CHUNK_EXCESS bytes before a nominal offset hold a terminator
TerminatorInLookback(f, off) ==
    \E i \in Max(0, off - CHUNK_EXCESS)..(off - 1) : At(f, i) = NL

\* C14: a chunk with nominal start > 0 whose lookback bytes hold no
\* terminator gets no slice from alignment, and no chunk with nominal
\* start > 0 gets a slice that begins in the middle of a record
C14_AlignmentErrorsFatal ==
    \A r \in ranges :
        r.offset > 0 =>
            /\ TerminatorInLookback(file, r.offset)
            /\ r.start = 0 \/ At(file, r.start - 1) = NL

\* the bytes get_aligned_buffer reads for a nominal offset: first and last
\* position in the file (main.rs:63-77)
ReadWindow(f, off) ==
    LET read_from == IF off = 0 THEN 0 ELSE off - CHUNK_EXCESS
        buffer_size == Min(BufferLen, Len(f) - off)
    IN [first |-> read_from, last |-> read_from + buffer_size - 1]

\* C15: on a file of newline-terminated records shorter than CHUNK_EXCESS,
\* the slice get_aligned_buffer returns for a claimed offset starts at the
\* file start or right after a terminator, and ends on a terminator (when
\* it is empty, right after one), which is the last terminator of the bytes
\* read
C15_WholeRecordsOnly ==
    \A r \in ranges :
        /\ r.start = 0 \/ At(file, r.start - 1) = NL
        /\ r.end >= r.start - 1
        /\ r.end >= 0 /\ At(file, r.end) = NL
        /\ r.end <= ReadWindow(file, r.offset).last
        /\ \A i \in (r.end + 1)..ReadWindow(file, r.offset).last :
              At(file, i) /= NL

\* the slice of a chunk with nominal start > 0 begins inside the lookback,
\* before the nominal start, and holds several records
C15_Witness ==
    \E r \in ranges :
        /\ r.offset > 0
        /\ r.start < r.offset
        /\ r.start > r.offset - CHUNK_EXCESS
        /\ Cardinality({i \in r.start..r.end : At(file, i) = NL}) >= 2

\* C16: for every offset a thread has claimed within the file, the bytes
\* read lie inside the file, and no thread ends in a panic of
\* get_aligned_buffer (an index out of range or an underflow)
C16_AlignmentInBounds ==
    /\ \A i \in 1..Len(claimed) :
          claimed[i].offset <= file_size =>
              /\ ReadWindow(file, claimed[i].offset).first >= 0
              /\ ReadWindow(file, claimed[i].offset).last < file_size
    /\ \A t \in Threads :
          pc[t] = "panicked" => ~get_aligned_buffer(file, thread_offset[t]).panic

\* the values read for a key from the chunks at the given offsets
ValuesOf(offsets, key) ==
    {o.val : o \in {x \in observed : x.offset \in offsets /\ x.key = key}}

\* the values a map entry has to cover: count >= 1, min <= max, and every
\* one of the given values within min .. max
CoversValues(entry, values) ==
    /\ F64Le(F64One, entry.count)
    /\ F64Le(entry.min, entry.max)
    /\ \A v \in values : F64Le(entry.min, v) /\ F64Le(v, entry.max)

\* C17: in every state, every entry of every thread's local map and of the
\* global map has count >= 1 and min <= max, and min <= v <= max for every
\* value v observed for its key (in the thread's chunk; in the merged chunks)
C17_StatisticsInvariant ==
    /\ \A t \in Threads : \A key \in DOMAIN map[t] :
          /\ ValuesOf({thread_offset[t]}, key) /= {}
          /\ CoversValues(map[t][key], ValuesOf({thread_offset[t]}, key))
    /\ \A key \in DOMAIN result :
          /\ ValuesOf({m.offset : m \in merged}, key) /= {}
          /\ CoversValues(result[key], ValuesOf({m.offset : m \in merged}, key))

\* the positions in the order of claims at which an offset was handed out
ClaimsOf(off) == {i \in 1..Len(claimed) : claimed[i].offset = off}

\* the merges of the local map of the chunk at an offset
MergesOf(off) == {m \in merged : m.offset = off}

\* C18: once the run is over, every nominal offset k * CHUNK_SIZE <= file
\* size has been claimed by exactly one thread, and the local map of its
\* chunk has been merged into the global map exactly once
C18_EveryChunkOnce ==
    Finished =>
        \A off \in InRangeOffsets(file) :
            /\ Cardinality(ClaimsOf(off)) = 1
            /\ Cardinality(MergesOf(off)) = 1

\* m is the lesser (the greater) of a and b: one of the two, and in the
\* order of f64 not above (not below) either
IsMinOf(m, a, b) == m \in {a, b} /\ F64Le(m, a) /\ F64Le(m, b)
IsMaxOf(m, a, b) == m \in {a, b} /\ F64Le(a, m) /\ F64Le(b, m)

\* C19: a step that changes the global map is the merge of the local map of
\* the thread holding the lock: a key of the local map that the global map
\* lacks gets the local entry, a key of both gets sum + sum, count + count,
\* the min of the mins and the max of the maxes, every other entry of the
\* global map is unchanged; no key is removed and no count decreases
C19_MergeFrame ==
    [][result' /= result =>
         \E t \in Threads :
            /\ lock = t
            /\ DOMAIN result' = DOMAIN result \cup DOMAIN map[t]
            /\ \A key \in DOMAIN map[t] \ DOMAIN result :
                  result'[key] = map[t][key]
            /\ \A key \in DOMAIN map[t] \cap DOMAIN result :
                  /\ result'[key].sum = F64Add(result[key].sum, map[t][key].sum)
                  /\ result'[key].count =
                        F64Add(result[key].count, map[t][key].count)
                  /\ IsMinOf(result'[key].min, result[key].min, map[t][key].min)
                  /\ IsMaxOf(result'[key].max, result[key].max, map[t][key].max)
            /\ \A key \in DOMAIN result \ DOMAIN map[t] :
                  result'[key] = result[key]
            /\ \A key \in DOMAIN result :
                  /\ key \in DOMAIN result'
                  /\ F64Le(result[key].count, result'[key].count)
    ]_vars

\* a merge has left alone an entry of the global map whose key its local map
\* lacked, another merge has combined entries of a key already there, and an
\* entry combined from zeros of both signs has a min and a max of different
\* signs
C19_Witness ==
    /\ Cardinality(merged) >= 2
    /\ \E m \in merged : \E r \in ranges :
          /\ r.offset = m.offset
          /\ m.offset > 0
          /\ \E p \in ParseBuffer(Slice(file, r.start, r.end + 1)) :
                DOMAIN p.map /= DOMAIN result /\ DOMAIN p.map /= {}
          /\ ~reordered
    /\ \E key \in DOMAIN result :
          /\ F64Le(F64OfNat(3), result[key].count)
          /\ result[key].min.cls = "zero" /\ result[key].max.cls = "zero"
          /\ result[key].min.neg /= result[key].max.neg
====
